---------------------------- MODULE Spec2Model ----------------------------
(***************************************************************************)
(* A model of gittracker.py: the blame parser (GitWrapper.get_blame_file), *)
(* the alignment it obtains from difflib.SequenceMatcher, the per-file     *)
(* ownership check (GitTracker._track_file) and the lazy walk              *)
(* (GitTracker.track / _track_branch) driven by GitReporter.display.       *)
(*                                                                         *)
(* Python strings are sequences of one-character strings, so that split,   *)
(* strip, startswith and slicing are computed and not assumed.  A dict is  *)
(* a function whose domain is its set of keys.                             *)
(***************************************************************************)
EXTENDS Integers, Sequences, FiniteSets, TLC

VARIABLES
    \* GitWrapper.get_blame_file, the parsing loop
    output,          \* the lines handed to the loop
    position,        \* 0-based index of the next line
    result,          \* the sealed records
    blockinfo,       \* the record in progress
    ppc,             \* "idle", "loop", "returned", "IndexError", "Exception"
    \* difflib.SequenceMatcher, as _track_file drives it
    a,               \* seq1: the trimmed mainline contents
    b,               \* seq2: the trimmed branch contents
    queue,           \* get_matching_blocks: the blocks still to look at
    matching_blocks, \* get_matching_blocks: the matches found
    opcodes,         \* get_opcodes: the answer
    mpc,             \* "idle", "queue", "blocks", "opcodes"
    \* the program's inputs
    wrapper,         \* the module's global `wrapper`: a backend handle, or unbound
    cfg,             \* the GitTracker's backend handle and criteria
    repo,            \* what the git backend answers
    \* GitTracker.track, a generator
    tpc,             \* "idle", "start", "yielded", "done", "raised"
    branches,        \* the list get_branches returned
    bidx,            \* how many of its items the for loop has taken
    \* GitTracker._track_branch, the generator of the branch yielded last
    bpc,             \* "idle", "start", "yielded", "done", "raised"
    diff_files,      \* the list get_diff_files returned
    fidx,            \* how many of its items the for loop has taken
    \* GitTracker._track_file, the generator of the file yielded last
    fpc,             \* "idle", "start", "yielded", "done", "raised"
    blame_branch,    \* the records of the file at the branch tip
    blame_master,    \* the records of the file at the mainline tip
    oi,              \* how many opcodes the for loop has taken
    \* what an observer of the run sees
    calls,           \* the backend calls made, in order, with their exit status
    out,             \* the items the three generators yielded, in order
    err,             \* "none", or the exception that ended the run
    \* GitReporter.display
    owners,              \* self._owners: None, or the set of owner e-mails
    branch_header_shown, \* the header of the branch taken last has been printed
    file_header_shown,   \* the header of the file taken last has been printed
    shown                \* what display has printed, in order

pvars == <<output, position, result, blockinfo, ppc>>

mvars == <<a, b, queue, matching_blocks, opcodes, mpc>>

wvars == <<wrapper, cfg, repo, tpc, branches, bidx, bpc, diff_files, fidx, fpc,
           blame_branch, blame_master, oi, calls, out, err,
           owners, branch_header_shown, file_header_shown, shown>>

dvars == <<owners, branch_header_shown, file_header_shown, shown>>

vars == <<output, position, result, blockinfo, ppc,
          a, b, queue, matching_blocks, opcodes, mpc,
          wrapper, cfg, repo, tpc, branches, bidx, bpc, diff_files, fidx, fpc,
          blame_branch, blame_master, oi, calls, out, err,
          owners, branch_header_shown, file_header_shown, shown>>

-----------------------------------------------------------------------------
(* Bounds *)

\* longest line sequence given to the parsing loop
MaxLines == 5

\* longest sequence given to the matcher
MaxSeqLen == 3

\* most lines of a file at one revision, where the file's lines are drawn freely
MaxBlameLen == 2

-----------------------------------------------------------------------------
(* Strings *)

Range(s) == {s[i] : i \in DOMAIN s}

\* the whitespace characters str.split() and str.strip() act on
Whitespace == {" ", "\t"}

\* s[n:] of Python, n >= 0
Drop(s, n) == IF n >= Len(s) THEN <<>> ELSE SubSeq(s, n + 1, Len(s))

\* s[lo:hi] of Python, 0 <= lo, hi
Slice(s, lo, hi) ==
    LET h == IF hi > Len(s) THEN Len(s) ELSE hi
    IN  IF lo >= h THEN <<>> ELSE SubSeq(s, lo + 1, h)

\* str.startswith
StartsWith(s, p) == Len(s) >= Len(p) /\ SubSeq(s, 1, Len(p)) = p

RECURSIVE LStrip(_)
LStrip(s) == IF s # <<>> /\ Head(s) \in Whitespace THEN LStrip(Tail(s)) ELSE s

RECURSIVE RStrip(_)
RStrip(s) ==
    IF s # <<>> /\ s[Len(s)] \in Whitespace
    THEN RStrip(SubSeq(s, 1, Len(s) - 1))
    ELSE s

\* str.strip()
Strip(s) == RStrip(LStrip(s))

\* str.split(): the maximal runs of non-whitespace characters, in order
RECURSIVE SplitFrom(_, _, _)
SplitFrom(s, cur, acc) ==
    IF s = <<>>
    THEN IF cur = <<>> THEN acc ELSE Append(acc, cur)
    ELSE IF Head(s) \in Whitespace
         THEN SplitFrom(Tail(s), <<>>, IF cur = <<>> THEN acc ELSE Append(acc, cur))
         ELSE SplitFrom(Tail(s), Append(cur, Head(s)), acc)

Split(s) == SplitFrom(s, <<>>, <<>>)

-----------------------------------------------------------------------------
(* GitWrapper.get_blame_file: the parsing loop *)

EmptyDict == [k \in {} |-> <<>>]

\* d[k] = v
DictSet(d, k, v) == (k :> v) @@ d

\* the keyword prefixes in the order the elif chain tests them
Keywords == <<
    [key |-> "author",         prefix |-> <<"a","u","t","h","o","r"," ">>],
    [key |-> "author-mail",    prefix |-> <<"a","u","t","h","o","r","-","m","a","i","l"," ">>],
    [key |-> "author-time",    prefix |-> <<"a","u","t","h","o","r","-","t","i","m","e"," ">>],
    [key |-> "author-tz",      prefix |-> <<"a","u","t","h","o","r","-","t","z"," ">>],
    [key |-> "committer",      prefix |-> <<"c","o","m","m","i","t","t","e","r"," ">>],
    [key |-> "committer-mail", prefix |-> <<"c","o","m","m","i","t","t","e","r","-","m","a","i","l"," ">>],
    [key |-> "committer-time", prefix |-> <<"c","o","m","m","i","t","t","e","r","-","t","i","m","e"," ">>],
    [key |-> "committer-tz",   prefix |-> <<"c","o","m","m","i","t","t","e","r","-","t","z"," ">>],
    [key |-> "summary",        prefix |-> <<"s","u","m","m","a","r","y"," ">>],
    [key |-> "filename",       prefix |-> <<"f","i","l","e","n","a","m","e"," ">>],
    [key |-> "previous",       prefix |-> <<"p","r","e","v","i","o","u","s"," ">>] >>

\* the first branch of the elif chain whose prefix the line starts with, or 0
KeywordOf(line) ==
    LET hits == {i \in DOMAIN Keywords : StartsWith(line, Keywords[i].prefix)}
    IN  IF hits = {} THEN 0 ELSE CHOOSE i \in hits : \A j \in hits : i <= j

\* which branch of the loop body a line takes, given the accumulator
LineKind(bi, line) ==
    IF DOMAIN bi = {}
    THEN IF Len(Split(line)) >= 3 THEN "header" ELSE "badheader"
    ELSE IF KeywordOf(line) # 0 THEN "keyword"
    ELSE IF StartsWith(line, <<"\t">>) THEN "content"
    ELSE "unexpected"

\* blockinfo['hash'] = info[0]; blockinfo['lineno'] = info[2]
HeaderInfoMutOrigLine(bi, line) ==
    LET info == Split(line)
    IN  DictSet(DictSet(bi, "hash", info[1]), "lineno", info[2])

HeaderInfo(bi, line) ==
    LET info == Split(line)
    IN  DictSet(DictSet(bi, "hash", info[1]), "lineno", info[3])

\* blockinfo[key] = line[len(prefix):]
KeywordInfo(bi, line) ==
    LET kw == Keywords[KeywordOf(line)]
    IN  DictSet(bi, kw.key, Drop(line, Len(kw.prefix)))

\* blockinfo['content'] = line[len('\t'):]
ContentMutStripped(bi, line) == DictSet(bi, "content", Strip(line))

ContentInfo(bi, line) == DictSet(bi, "content", Drop(line, 1))

\* One pass of the loop body on `line`, from the state st = [result, blockinfo, pc].
ParseLineMutSkip(st, line) ==
    LET kind == LineKind(st.blockinfo, line)
    IN  CASE kind = "header" ->
                [st EXCEPT !.blockinfo = HeaderInfo(st.blockinfo, line)]
          [] kind = "badheader" ->
                [st EXCEPT !.pc = "IndexError"]
          [] kind = "keyword" ->
                [st EXCEPT !.blockinfo = KeywordInfo(st.blockinfo, line)]
          [] kind = "content" ->
                [st EXCEPT !.result = Append(st.result, ContentInfo(st.blockinfo, line)),
                           !.blockinfo = EmptyDict]
          [] OTHER -> st

\* blockinfo.clear() in place of blockinfo = {}: every sealed record is the one
\* dict the loop keeps writing to
ParseLineMutClear(st, line) ==
    LET kind == LineKind(st.blockinfo, line)
        All(n, d) == [i \in 1..n |-> d]
    IN  CASE kind = "header" ->
                [st EXCEPT !.blockinfo = HeaderInfo(st.blockinfo, line),
                           !.result = All(Len(st.result), HeaderInfo(st.blockinfo, line))]
          [] kind = "badheader" ->
                [st EXCEPT !.pc = "IndexError"]
          [] kind = "keyword" ->
                [st EXCEPT !.blockinfo = KeywordInfo(st.blockinfo, line),
                           !.result = All(Len(st.result), KeywordInfo(st.blockinfo, line))]
          [] kind = "content" ->
                [st EXCEPT !.result = All(Len(st.result) + 1, EmptyDict),
                           !.blockinfo = EmptyDict]
          [] OTHER ->
                [st EXCEPT !.pc = "Exception"]

ParseLineMutNoReset(st, line) ==
    LET kind == LineKind(st.blockinfo, line)
    IN  CASE kind = "header" ->
                [st EXCEPT !.blockinfo = HeaderInfo(st.blockinfo, line)]
          [] kind = "badheader" ->
                [st EXCEPT !.pc = "IndexError"]
          [] kind = "keyword" ->
                [st EXCEPT !.blockinfo = KeywordInfo(st.blockinfo, line)]
          [] kind = "content" ->
                [st EXCEPT !.result = Append(st.result, ContentInfo(st.blockinfo, line)),
                           !.blockinfo = ContentInfo(st.blockinfo, line)]
          [] OTHER ->
                [st EXCEPT !.pc = "Exception"]

ParseLine(st, line) ==
    LET kind == LineKind(st.blockinfo, line)
    IN  CASE kind = "header" ->
                [st EXCEPT !.blockinfo = HeaderInfo(st.blockinfo, line)]
          [] kind = "badheader" ->
                [st EXCEPT !.pc = "IndexError"]
          [] kind = "keyword" ->
                [st EXCEPT !.blockinfo = KeywordInfo(st.blockinfo, line)]
          [] kind = "content" ->
                [st EXCEPT !.result = Append(st.result, ContentInfo(st.blockinfo, line)),
                           !.blockinfo = EmptyDict]
          [] OTHER ->
                [st EXCEPT !.pc = "Exception"]

\* the whole loop: the state at `return result`, or at the raise
RECURSIVE ParseFrom(_, _, _)
ParseFrom(st, lines, pos) ==
    IF st.pc # "loop" THEN st
    ELSE IF pos >= Len(lines) THEN [st EXCEPT !.pc = "returned"]
    ELSE ParseFrom(ParseLine(st, lines[pos + 1]), lines, pos + 1)

ParseStart == [result |-> <<>>, blockinfo |-> EmptyDict, pc |-> "loop"]

ParseAll(lines) == ParseFrom(ParseStart, lines, 0)

-----------------------------------------------------------------------------
(* difflib.SequenceMatcher(None): isjunk is None, autojunk is on.          *)
(* Indices are Python's: 0-based, ranges half-open.                        *)

At(s, i) == s[i + 1]

Max(S) == CHOOSE x \in S : \A y \in S : y <= x

Min(S) == CHOOSE x \in S : \A y \in S : x <= y

\* __chain_b: the indices of elt in seq2, none for a popular element
\* (more than len//100 + 1 occurrences in a seq2 of 200 items or more)
B2J(seq2, elt) ==
    LET idxs == {j \in 0..(Len(seq2) - 1) : At(seq2, j) = elt}
        n == Len(seq2)
    IN  IF n >= 200 /\ Cardinality(idxs) > (n \div 100) + 1 THEN {} ELSE idxs

\* newj2len of one pass of the outer loop: newj2len[j] = j2len.get(j-1, 0) + 1
\* for the j of b2j[a[i]] in [blo, bhi); 0 stands for "no entry"
NewJ2Len(seq1, seq2, i, blo, bhi, j2len) ==
    [j \in (-1)..(Len(seq2) - 1) |->
        IF j >= blo /\ j < bhi /\ j \in B2J(seq2, At(seq1, i))
        THEN j2len[j - 1] + 1
        ELSE 0]

\* `if k > bestsize` over one row, j ascending: the row's largest k wins if it
\* beats bestsize, at its smallest j
RowBest(i, row, best) ==
    LET m == Max({row[j] : j \in DOMAIN row})
    IN  IF m > best.size
        THEN LET j == Min({jj \in DOMAIN row : row[jj] = m})
             IN  [i |-> i - m + 1, j |-> j - m + 1, size |-> m]
        ELSE best

\* the loop `for i in range(alo, ahi)`
RECURSIVE LongestLoop(_, _, _, _, _, _, _, _)
LongestLoop(seq1, seq2, i, ahi, blo, bhi, j2len, best) ==
    IF i >= ahi THEN best
    ELSE LET row == NewJ2Len(seq1, seq2, i, blo, bhi, j2len)
         IN  LongestLoop(seq1, seq2, i + 1, ahi, blo, bhi, row, RowBest(i, row, best))

\* while besti > alo and bestj > blo and a[besti-1] == b[bestj-1]
RECURSIVE ExtendBack(_, _, _, _, _)
ExtendBack(seq1, seq2, alo, blo, m) ==
    IF m.i > alo /\ m.j > blo /\ At(seq1, m.i - 1) = At(seq2, m.j - 1)
    THEN ExtendBack(seq1, seq2, alo, blo,
                    [i |-> m.i - 1, j |-> m.j - 1, size |-> m.size + 1])
    ELSE m

\* while besti+bestsize < ahi and bestj+bestsize < bhi and a[..] == b[..]
RECURSIVE ExtendForwardMutNoCompare(_, _, _, _, _)
ExtendForwardMutNoCompare(seq1, seq2, ahi, bhi, m) ==
    IF m.i + m.size < ahi /\ m.j + m.size < bhi
    THEN ExtendForwardMutNoCompare(seq1, seq2, ahi, bhi, [m EXCEPT !.size = m.size + 1])
    ELSE m

RECURSIVE ExtendForward(_, _, _, _, _)
ExtendForward(seq1, seq2, ahi, bhi, m) ==
    IF /\ m.i + m.size < ahi
       /\ m.j + m.size < bhi
       /\ At(seq1, m.i + m.size) = At(seq2, m.j + m.size)
    THEN ExtendForward(seq1, seq2, ahi, bhi, [m EXCEPT !.size = m.size + 1])
    ELSE m

\* find_longest_match(alo, ahi, blo, bhi); bjunk is empty, so the two loops
\* that extend by junk never run
FindLongestMatch(seq1, seq2, alo, ahi, blo, bhi) ==
    LET j2len == [j \in (-2)..(Len(seq2) - 1) |-> 0]
        best == LongestLoop(seq1, seq2, alo, ahi, blo, bhi, j2len,
                            [i |-> alo, j |-> blo, size |-> 0])
    IN  ExtendForward(seq1, seq2, ahi, bhi, ExtendBack(seq1, seq2, alo, blo, best))

\* One pass of `while queue` in get_matching_blocks, from st = [queue, blocks]:
\* pop, match, and push what lies left and right of the match.
QueueStep(seq1, seq2, st) ==
    LET top == st.queue[Len(st.queue)]
        rest == SubSeq(st.queue, 1, Len(st.queue) - 1)
        x == FindLongestMatch(seq1, seq2, top.alo, top.ahi, top.blo, top.bhi)
        left == IF top.alo < x.i /\ top.blo < x.j
                THEN <<[alo |-> top.alo, ahi |-> x.i, blo |-> top.blo, bhi |-> x.j]>>
                ELSE <<>>
        right == IF x.i + x.size < top.ahi /\ x.j + x.size < top.bhi
                 THEN <<[alo |-> x.i + x.size, ahi |-> top.ahi,
                         blo |-> x.j + x.size, bhi |-> top.bhi]>>
                 ELSE <<>>
    IN  IF x.size # 0
        THEN [queue |-> rest \o left \o right, blocks |-> Append(st.blocks, x)]
        ELSE [queue |-> rest, blocks |-> st.blocks]

\* queue = [(0, la, 0, lb)]; matching_blocks = []
QueueStart(seq1, seq2) ==
    [queue |-> <<[alo |-> 0, ahi |-> Len(seq1), blo |-> 0, bhi |-> Len(seq2)]>>,
     blocks |-> <<>>]

\* tuple order on (i, j, size)
BlockLess(x, y) ==
    \/ x.i < y.i
    \/ x.i = y.i /\ x.j < y.j
    \/ x.i = y.i /\ x.j = y.j /\ x.size < y.size

\* matching_blocks.sort()
RECURSIVE SortBlocks(_)
SortBlocks(blocks) ==
    IF blocks = <<>> THEN <<>>
    ELSE LET k == CHOOSE k \in DOMAIN blocks :
                      \A l \in DOMAIN blocks : l = k \/ ~BlockLess(blocks[l], blocks[k])
             others == [l \in 1..(Len(blocks) - 1) |->
                           IF l < k THEN blocks[l] ELSE blocks[l + 1]]
         IN  <<blocks[k]>> \o SortBlocks(others)

\* the loop that collapses adjacent blocks; cur is (i1, j1, k1)
RECURSIVE CollapseLoop(_, _, _, _)
CollapseLoop(blocks, n, cur, acc) ==
    IF n > Len(blocks)
    THEN IF cur.size # 0 THEN Append(acc, cur) ELSE acc
    ELSE LET x == blocks[n]
         IN  IF cur.i + cur.size = x.i /\ cur.j + cur.size = x.j
             THEN CollapseLoop(blocks, n + 1, [cur EXCEPT !.size = cur.size + x.size], acc)
             ELSE CollapseLoop(blocks, n + 1, x,
                               IF cur.size # 0 THEN Append(acc, cur) ELSE acc)

\* the tail of get_matching_blocks: sort, collapse, append the (la, lb, 0) sentinel
FinishBlocksMutNoSentinel(seq1, seq2, blocks) ==
    CollapseLoop(SortBlocks(blocks), 1, [i |-> 0, j |-> 0, size |-> 0], <<>>)

FinishBlocks(seq1, seq2, blocks) ==
    Append(CollapseLoop(SortBlocks(blocks), 1, [i |-> 0, j |-> 0, size |-> 0], <<>>),
           [i |-> Len(seq1), j |-> Len(seq2), size |-> 0])

OpTag(i, j, ai, bj) ==
    IF i < ai /\ j < bj THEN "replace"
    ELSE IF i < ai THEN "delete"
    ELSE IF j < bj THEN "insert"
    ELSE ""

\* the loop of get_opcodes over the matching blocks
RECURSIVE OpcodeLoopMutNoSizeTest(_, _, _, _, _)
OpcodeLoopMutNoSizeTest(blocks, n, i, j, answer) ==
    IF n > Len(blocks) THEN answer
    ELSE LET x == blocks[n]
             tag == OpTag(i, j, x.i, x.j)
             ans1 == IF tag # ""
                     THEN Append(answer, [tag |-> tag, i1 |-> i, i2 |-> x.i,
                                          j1 |-> j, j2 |-> x.j])
                     ELSE answer
             ans2 == Append(ans1, [tag |-> "equal", i1 |-> x.i, i2 |-> x.i + x.size,
                                   j1 |-> x.j, j2 |-> x.j + x.size])
         IN  OpcodeLoopMutNoSizeTest(blocks, n + 1, x.i + x.size, x.j + x.size, ans2)

RECURSIVE OpcodeLoop(_, _, _, _, _)
OpcodeLoop(blocks, n, i, j, answer) ==
    IF n > Len(blocks) THEN answer
    ELSE LET x == blocks[n]
             tag == OpTag(i, j, x.i, x.j)
             ans1 == IF tag # ""
                     THEN Append(answer, [tag |-> tag, i1 |-> i, i2 |-> x.i,
                                          j1 |-> j, j2 |-> x.j])
                     ELSE answer
             ans2 == IF x.size # 0
                     THEN Append(ans1, [tag |-> "equal", i1 |-> x.i, i2 |-> x.i + x.size,
                                        j1 |-> x.j, j2 |-> x.j + x.size])
                     ELSE ans1
         IN  OpcodeLoop(blocks, n + 1, x.i + x.size, x.j + x.size, ans2)

\* the whole of `while queue`
RECURSIVE QueueLoop(_, _, _)
QueueLoop(seq1, seq2, st) ==
    IF st.queue = <<>> THEN st.blocks ELSE QueueLoop(seq1, seq2, QueueStep(seq1, seq2, st))

GetMatchingBlocks(seq1, seq2) ==
    FinishBlocks(seq1, seq2, QueueLoop(seq1, seq2, QueueStart(seq1, seq2)))

\* get_opcodes() after set_seq1(seq1) and set_seq2(seq2)
GetOpcodes(seq1, seq2) == OpcodeLoop(GetMatchingBlocks(seq1, seq2), 1, 0, 0, <<>>)

-----------------------------------------------------------------------------
(* re.compile(r'|'.join(patterns), re.IGNORECASE) and its search, for      *)
(* patterns made of literal characters and "(": a pattern holding "(" does *)
(* not compile, and neither does an alternation holding it.                *)

Lower(c) ==
    CASE c = "F" -> "f"
      [] c = "P" -> "p"
      [] c = "Q" -> "q"
      [] c = "R" -> "r"
      [] OTHER -> c

LowerSeq(s) == [i \in DOMAIN s |-> Lower(s[i])]

Contains(s, p) ==
    \E k \in 0..(Len(s) - Len(p)) : SubSeq(s, k + 1, k + Len(p)) = p

\* re.compile of the alternation of `patterns`: whether it compiles, and what
\* it searches for
ReCompile(patterns) ==
    [ok |-> \A i \in DOMAIN patterns : "(" \notin Range(patterns[i]),
     alts |-> patterns]

\* compiled.search(s); the empty alternation is the empty pattern, found anywhere
ReSearch(alts, s) ==
    \/ alts = <<>>
    \/ \E i \in DOMAIN alts : Contains(LowerSeq(s), LowerSeq(alts[i]))

\* an argparse value: None, or the list nargs='+' collected
None == [given |-> FALSE, list |-> <<>>]

Some(list) == [given |-> TRUE, list |-> list]

\* the truth value of `self._branches` and its like
Truthy(opt) == opt.given /\ opt.list # <<>>

\* self._branches or []
OrEmpty(opt) == IF Truthy(opt) THEN opt.list ELSE <<>>

\* an argparse date: None, or a datetime (always true as a condition)
NoDate == [given |-> FALSE, date |-> 0]

SomeDate(d) == [given |-> TRUE, date |-> d]

-----------------------------------------------------------------------------
(* GitTracker.track and GitTracker._track_branch: the filters *)

\* the `continue` conditions of track's loop, for br = (branch, authordate)
BranchSkippedMutNoExclude(c, br) ==
    \/ Truthy(c.branches) /\ ~ReSearch(OrEmpty(c.branches), br.name)
    \/ c.after_date.given /\ br.date < c.after_date.date
    \/ c.before_date.given /\ br.date > c.before_date.date

BranchSkippedMutDateStrict(c, br) ==
    \/ Truthy(c.branches) /\ ~ReSearch(OrEmpty(c.branches), br.name)
    \/ Truthy(c.no_branches) /\ ReSearch(OrEmpty(c.no_branches), br.name)
    \/ c.after_date.given /\ br.date <= c.after_date.date
    \/ c.before_date.given /\ br.date > c.before_date.date

BranchSkipped(c, br) ==
    \/ Truthy(c.branches) /\ ~ReSearch(OrEmpty(c.branches), br.name)
    \/ Truthy(c.no_branches) /\ ReSearch(OrEmpty(c.no_branches), br.name)
    \/ c.after_date.given /\ br.date < c.after_date.date
    \/ c.before_date.given /\ br.date > c.before_date.date

\* the `continue` conditions of _track_branch's loop
FileSkipped(c, file_path) ==
    \/ Truthy(c.files) /\ ~ReSearch(OrEmpty(c.files), file_path)
    \/ Truthy(c.no_files) /\ ReSearch(OrEmpty(c.no_files), file_path)

\* the first item after `from` that track's loop does not skip, or 0
NextBranchIndex(c, brs, from) ==
    LET ks == {k \in (from + 1)..Len(brs) : ~BranchSkipped(c, brs[k])}
    IN  IF ks = {} THEN 0 ELSE Min(ks)

\* the first item after `from` that _track_branch's loop does not skip, or 0
NextFileIndex(c, files, from) ==
    LET ks == {k \in (from + 1)..Len(files) : ~FileSkipped(c, files[k])}
    IN  IF ks = {} THEN 0 ELSE Min(ks)

-----------------------------------------------------------------------------
(* The git backend *)

\* '%s/master' % remote
Master == <<"m","a","s","t","e","r">>

Digits == <<"1", "2", "3", "4", "5", "6", "7", "8", "9">>

\* what `git blame --line-porcelain` prints for line n of a file: the header,
\* the author's mail, "boundary" for a line of a boundary commit, the content
PorcelainBlock(n, ln) ==
    <<  <<"h", " ", Digits[n], " ", Digits[n]>>,
        <<"a","u","t","h","o","r","-","m","a","i","l"," ">> \o ln.mail >>
    \o (IF ln.boundary THEN << <<"b","o","u","n","d","a","r","y">> >> ELSE <<>>)
    \o << <<"\t">> \o ln.text >>

RECURSIVE Porcelain(_, _)
Porcelain(lines, n) ==
    IF n = 0 THEN <<>> ELSE Porcelain(lines, n - 1) \o PorcelainBlock(n, lines[n])

\* the exit status of git blame when git itself does not fail
BlameRc(r, rev, file_path) == IF r.blame[<<rev, file_path>>].present THEN 0 ELSE 128

\* the lines _git_cmd returns for git blame
BlameOutput(r, rev, file_path) ==
    LET f == r.blame[<<rev, file_path>>]
    IN  IF f.present THEN Porcelain(f.lines, Len(f.lines)) ELSE <<>>

-----------------------------------------------------------------------------
(* GitWrapper.get_blame_file *)

\* rc is the exit status of git, lines its output when rc = 0
GetBlameFileMutRaiseAbsent(rc, lines) ==
    IF rc = 0 THEN ParseAll(lines)
    ELSE [result |-> <<>>, blockinfo |-> EmptyDict, pc |-> "CalledProcessError"]

GetBlameFileMutSwallow(rc, lines) ==
    IF rc = 0 THEN ParseAll(lines) ELSE ParseAll(<<>>)

GetBlameFile(rc, lines) ==
    IF rc = 0 THEN ParseAll(lines)
    ELSE IF rc = 128 THEN ParseAll(<<>>)
    ELSE [result |-> <<>>, blockinfo |-> EmptyDict, pc |-> "CalledProcessError"]

-----------------------------------------------------------------------------
(* GitTracker._track_file *)

TrimmedContentsMutRaw(blame) == [i \in DOMAIN blame |-> blame[i]["content"]]

\* [x['content'].strip() for x in blame]
TrimmedContents(blame) == [i \in DOMAIN blame |-> Strip(blame[i]["content"])]

\* {x['author-mail'] for x in records}
AuthorsOf(records) == {records[i]["author-mail"] : i \in DOMAIN records}

HasMail(records) == \A i \in DOMAIN records : "author-mail" \in DOMAIN records[i]

\* the negation of `if not authors_master - authors_branch: continue`
IsViolationMutSwapped(authors_master, authors_branch) ==
    authors_branch \ authors_master # {}

IsViolationMutUnequal(authors_master, authors_branch) ==
    authors_master # authors_branch

IsViolation(authors_master, authors_branch) ==
    authors_master \ authors_branch # {}

\* The loop over the opcodes from opcode k (1-based) on: where it yields, that it
\* is exhausted, or that a record without 'author-mail' raised KeyError.
RECURSIVE ScanOpcodes(_, _, _, _)
ScanOpcodes(bm, bb, ops, k) ==
    IF k > Len(ops) THEN [kind |-> "stop", at |-> Len(ops)]
    ELSE IF ops[k].tag = "equal" THEN ScanOpcodes(bm, bb, ops, k + 1)
    ELSE LET ms == Slice(bm, ops[k].i1, ops[k].i2)
             bs == Slice(bb, ops[k].j1, ops[k].j2)
         IN  IF ~HasMail(ms) \/ ~HasMail(bs) THEN [kind |-> "KeyError", at |-> k]
             ELSE IF ~IsViolation(AuthorsOf(ms), AuthorsOf(bs))
                  THEN ScanOpcodes(bm, bb, ops, k + 1)
                  ELSE [kind |-> "yield", at |-> k]

-----------------------------------------------------------------------------
(* The parsing loop, one line at a time *)

\* self._owners = set(emails) if emails else None
NoOwners == [given |-> FALSE, set |-> {}]

OwnersOf(emails) == [given |-> emails # {}, set |-> emails]

NoRepo == [branches |-> <<>>, diff |-> <<>>, blame |-> <<>>]

\* the backend handles: GitWrapper objects, told apart by identity
Handle1 == "GitWrapper#1"

Handle2 == "GitWrapper#2"

\* the global name `wrapper` when nothing has bound it
Unbound == "unbound"

NoCfg == [wrapper |-> Unbound, branches |-> None, no_branches |-> None, files |-> None, no_files |-> None,
          after_date |-> NoDate, before_date |-> NoDate]

WalkIdle ==
    /\ wrapper = Unbound
    /\ cfg = NoCfg
    /\ repo = NoRepo
    /\ tpc = "idle"
    /\ branches = <<>>
    /\ bidx = 0
    /\ bpc = "idle"
    /\ diff_files = <<>>
    /\ fidx = 0
    /\ fpc = "idle"
    /\ blame_branch = <<>>
    /\ blame_master = <<>>
    /\ oi = 0
    /\ calls = <<>>
    /\ out = <<>>
    /\ err = "none"
    /\ owners = NoOwners
    /\ branch_header_shown = FALSE
    /\ file_header_shown = FALSE
    /\ shown = <<>>

MatcherIdle ==
    /\ a = <<>>
    /\ b = <<>>
    /\ queue = <<>>
    /\ matching_blocks = <<>>
    /\ opcodes = <<>>
    /\ mpc = "idle"

\* "h 1 1"
LineHeader1 == <<"h", " ", "1", " ", "1">>
\* "g 7 2 1": final line 2, with a group size
LineHeader2 == <<"g", " ", "7", " ", "2", " ", "1">>
\* "author-mail <a>"
LineMail == <<"a","u","t","h","o","r","-","m","a","i","l"," ","<","a",">">>
\* "author A"
LineAuthor == <<"a","u","t","h","o","r"," ","A">>
\* "\tx"
LineContent1 == <<"\t", "x">>
\* "\t y 1 2": content with a leading blank and three tokens, which the loop takes
\* for a header when no record is in progress
LineContent2 == <<"\t", " ", "y", " ", "1", " ", "2">>
\* "boundary": what git prints for a boundary commit; no branch of the loop takes it
LineBoundary == <<"b","o","u","n","d","a","r","y">>
\* "h": a line with fewer than three tokens
LineShort == <<"h">>

LineSet == {LineHeader1, LineHeader2, LineMail, LineAuthor,
            LineContent1, LineContent2, LineBoundary, LineShort}

SeqsUpTo(S, n) == UNION {[1..k -> S] : k \in 0..n}

ParseState == [result |-> result, blockinfo |-> blockinfo, pc |-> ppc]

InitParse ==
    /\ output \in SeqsUpTo(LineSet, MaxLines)
    /\ position = 0
    /\ result = <<>>
    /\ blockinfo = EmptyDict
    /\ ppc = "loop"
    /\ MatcherIdle
    /\ WalkIdle

\* one pass of the loop body whose line takes the branch `kind`
ParseBranch(kind) ==
    /\ position < Len(output)
    /\ LineKind(blockinfo, output[position + 1]) = kind
    /\ LET st == ParseLine(ParseState, output[position + 1])
       IN  /\ result' = st.result
           /\ blockinfo' = st.blockinfo
           /\ ppc' = st.pc
           \* a raise leaves the loop before position += 1
           /\ position' = IF st.pc = "loop" THEN position + 1 ELSE position
    /\ UNCHANGED <<output, mvars, wvars>>

ParseHeader == ppc = "loop" /\ ParseBranch("header")
ParseBadHeader == ppc = "loop" /\ ParseBranch("badheader")
ParseKeyword == ppc = "loop" /\ ParseBranch("keyword")
ParseContent == ppc = "loop" /\ ParseBranch("content")
ParseUnexpected == ppc = "loop" /\ ParseBranch("unexpected")

\* the loop condition fails: return result
ParseReturn ==
    /\ ppc = "loop"
    /\ position >= Len(output)
    /\ ppc' = "returned"
    /\ UNCHANGED <<output, position, result, blockinfo, mvars, wvars>>

NextParse ==
    \/ ParseHeader
    \/ ParseBadHeader
    \/ ParseKeyword
    \/ ParseContent
    \/ ParseUnexpected
    \/ ParseReturn

SpecParse == InitParse /\ [][NextParse]_vars

-----------------------------------------------------------------------------
(* The matcher, one pass of its queue at a time *)

ParserIdle ==
    /\ output = <<>>
    /\ position = 0
    /\ result = <<>>
    /\ blockinfo = EmptyDict
    /\ ppc = "idle"

\* trimmed line contents
Items == {<<"x">>, <<"y">>, <<"z">>}

\* set_seq1, set_seq2, and the first lines of get_matching_blocks
InitAlign ==
    /\ a \in SeqsUpTo(Items, MaxSeqLen)
    /\ b \in SeqsUpTo(Items, MaxSeqLen)
    /\ queue = QueueStart(a, b).queue
    /\ matching_blocks = <<>>
    /\ opcodes = <<>>
    /\ mpc = "queue"
    /\ ParserIdle
    /\ WalkIdle

QueuePass(found) ==
    /\ queue # <<>>
    /\ LET st == QueueStep(a, b, [queue |-> queue, blocks |-> matching_blocks])
       IN  /\ found = (Len(st.blocks) > Len(matching_blocks))
           /\ queue' = st.queue
           /\ matching_blocks' = st.blocks
    /\ UNCHANGED <<a, b, opcodes, mpc, pvars, wvars>>

\* find_longest_match found a block: k # 0
MatchFound == mpc = "queue" /\ QueuePass(TRUE)

\* there was no matching block
MatchNone == mpc = "queue" /\ QueuePass(FALSE)

\* the queue is empty: sort, collapse, add the sentinel
MatchFinish ==
    /\ mpc = "queue"
    /\ queue = <<>>
    /\ matching_blocks' = FinishBlocks(a, b, matching_blocks)
    /\ mpc' = "blocks"
    /\ UNCHANGED <<a, b, queue, opcodes, pvars, wvars>>

\* get_opcodes over the matching blocks
MatchOpcodes ==
    /\ mpc = "blocks"
    /\ opcodes' = OpcodeLoop(matching_blocks, 1, 0, 0, <<>>)
    /\ mpc' = "opcodes"
    /\ UNCHANGED <<a, b, queue, matching_blocks, pvars, wvars>>

NextAlign ==
    \/ MatchFound
    \/ MatchNone
    \/ MatchFinish
    \/ MatchOpcodes

SpecAlign == InitAlign /\ [][NextAlign]_vars

-----------------------------------------------------------------------------
(* The walk: GitReporter.display pulling GitTracker.track().  A generator   *)
(* runs from one resumption to its next yield, its return or its raise in   *)
(* one step.  display always resumes the innermost generator that is not    *)
(* exhausted, and an exception leaves display and ends the run.             *)

F1 == <<"f", "1">>
F2 == <<"F", "2">>
FileP == <<"p">>
FileQ == <<"q">>
FileR == <<"r">>
MailA == <<"<", "a", ">">>
MailB == <<"<", "b", ">">>

Ln(mail, text) == [mail |-> mail, text |-> text, boundary |-> FALSE]

Present(lines) == [present |-> TRUE, lines |-> lines]

Absent == [present |-> FALSE, lines |-> <<>>]

\* A repository: mainline and two branches.  f1 changed p (a line rewritten, the
\* owner still among the block's authors) and q (a line rewritten by someone
\* else); F2 deleted q, added r, which the mainline never had, and changed p,
\* whose first line comes from a boundary commit.
WalkRepo ==
    [branches |-> << [name |-> Master, date |-> 2],
                     [name |-> F1, date |-> 1],
                     [name |-> F2, date |-> 3] >>,
     diff |-> (Master :> <<>>) @@ (F1 :> <<FileP, FileQ>>) @@ (F2 :> <<FileQ, FileR, FileP>>),
     blame |->
        (<<Master, FileP>> :> Present(<<Ln(MailA, <<"x">>), Ln(MailA, <<"y">>)>>)) @@
        (<<F1, FileP>> :> Present(<<Ln(MailB, <<" ", "x">>), Ln(MailA, <<"z">>)>>)) @@
        (<<Master, FileQ>> :> Present(<<Ln(MailA, <<"x">>), Ln(MailA, <<"y">>)>>)) @@
        (<<F1, FileQ>> :> Present(<<Ln(MailB, <<"x">>), Ln(MailB, <<"z">>)>>)) @@
        (<<F2, FileQ>> :> Absent) @@
        (<<Master, FileR>> :> Absent) @@
        (<<F2, FileR>> :> Present(<<Ln(MailB, <<"x">>)>>)) @@
        (<<F2, FileP>> :> Present(<<[mail |-> MailA, text |-> <<"x">>, boundary |-> TRUE]>>))]

\* the criteria: each list is None or what nargs='+' collected
Configs ==
    [wrapper : {Handle1},
     branches : {None, Some(<< <<"f">> >>), Some(<< <<"2">>, <<"m">> >>), Some(<< <<"(">> >>)},
     no_branches : {None, Some(<< <<"2">> >>), Some(<< <<"m">>, <<"(">> >>)},
     files : {None, Some(<< <<"Q">>, <<"r">> >>), Some(<< <<"(">> >>)},
     no_files : {None, Some(<< <<"p">> >>), Some(<< <<"q">>, <<"(">> >>)},
     after_date : {NoDate, SomeDate(2)},
     before_date : {NoDate, SomeDate(2)}]

\* a backend call: `via` is the name the code reaches the handle through, `on`
\* the handle that name stands for
Call(op, branch, rev, file_path, rc, nret, via) ==
    [op |-> op, branch |-> branch, rev |-> rev, file |-> file_path, rc |-> rc,
     nret |-> nret, via |-> via,
     on |-> IF via = "self._wrapper" THEN cfg.wrapper ELSE wrapper]

Item(kind, branch, file_path, master, brn) ==
    [kind |-> kind, branch |-> branch, file |-> file_path, master |-> master,
     brn |-> brn]

FileGenIdle ==
    /\ blame_branch = <<>>
    /\ blame_master = <<>>
    /\ oi = 0
    /\ a = <<>>
    /\ b = <<>>
    /\ queue = <<>>
    /\ matching_blocks = <<>>
    /\ opcodes = <<>>
    /\ mpc = "idle"

\* a fresh _track_file generator: nothing of its body has run
FileGenReset ==
    /\ blame_branch' = <<>>
    /\ blame_master' = <<>>
    /\ oi' = 0
    /\ a' = <<>>
    /\ b' = <<>>
    /\ queue' = <<>>
    /\ matching_blocks' = <<>>
    /\ opcodes' = <<>>
    /\ mpc' = "idle"

fgvars == <<blame_branch, blame_master, oi, a, b, queue, matching_blocks, opcodes, mpc>>

\* GitReporter(args.owners): --owners left out, or what nargs='+' collected
OwnerSets == {NoOwners, OwnersOf({<<"a">>}), OwnersOf({<<"b">>})}

DisplayStart ==
    /\ branch_header_shown = FALSE
    /\ file_header_shown = FALSE
    /\ shown = <<>>

Init ==
    /\ cfg \in Configs
    /\ wrapper = cfg.wrapper
    /\ owners \in OwnerSets
    /\ DisplayStart
    /\ repo = WalkRepo
    /\ tpc = "start"
    /\ branches = <<>>
    /\ bidx = 0
    /\ bpc = "idle"
    /\ diff_files = <<>>
    /\ fidx = 0
    /\ fpc = "idle"
    /\ FileGenIdle
    /\ calls = <<>>
    /\ out = <<>>
    /\ err = "none"
    /\ ParserIdle

(* next() on track() *)

TrackCanResume ==
    /\ err = "none"
    /\ tpc \in {"start", "yielded"}
    /\ bpc \in {"idle", "done"}

TrackPatternsOk ==
    /\ ReCompile(OrEmpty(cfg.branches)).ok
    /\ ReCompile(OrEmpty(cfg.no_branches)).ok

\* re.compile raises on the include or the exclude alternation
TrackBadPattern ==
    /\ TrackCanResume
    /\ tpc = "start"
    /\ ~TrackPatternsOk
    /\ tpc' = "raised"
    /\ err' = "re.error"
    /\ UNCHANGED <<wrapper, cfg, repo, branches, bidx, bpc, diff_files, fidx, fpc, calls, out,
                   fgvars, pvars, dvars>>

\* get_branches fails
TrackListFail ==
    /\ TrackCanResume
    /\ tpc = "start"
    /\ TrackPatternsOk
    /\ calls' = Append(calls, Call("get_branches", <<>>, <<>>, <<>>, 1, 0, "self._wrapper"))
    /\ tpc' = "raised"
    /\ err' = "CalledProcessError"
    /\ UNCHANGED <<wrapper, cfg, repo, branches, bidx, bpc, diff_files, fidx, fpc, out,
                   fgvars, pvars, dvars>>

\* the commit get_merge_base returns
MergeBase(branch) == <<"b", "a", "s", "e", ":">> \o branch

\* _track_branch run as a plain call: its backend calls made when the branch is
\* yielded
TrackCallsMutEager(brs, k) ==
    (IF tpc = "start"
     THEN Append(calls, Call("get_branches", <<>>, <<>>, <<>>, 0, Len(brs), "self._wrapper"))
     ELSE calls)
    \o (IF k = 0 THEN <<>>
        ELSE << Call("get_merge_base", brs[k].name, brs[k].name, <<>>, 0, 1,
                     "self._wrapper"),
                Call("get_diff_files", brs[k].name, MergeBase(brs[k].name), <<>>, 0,
                     Len(repo.diff[brs[k].name]), "self._wrapper") >>)

\* the calls made by the time track() yields brs[k] or ends (k = 0): the branch
\* listing on the first resumption, nothing for the branch yielded, whose
\* generator is only created
TrackCalls(brs, k) ==
    IF tpc = "start"
    THEN Append(calls, Call("get_branches", <<>>, <<>>, <<>>, 0, Len(brs), "self._wrapper"))
    ELSE calls

\* the loop runs to its next yield (found) or to its end
TrackLoop(found) ==
    /\ tpc = "start" => TrackPatternsOk
    /\ LET brs == IF tpc = "start" THEN repo.branches ELSE branches
           k == NextBranchIndex(cfg, brs, bidx)
       IN  /\ found = (k # 0)
           /\ branches' = brs
           /\ calls' = TrackCalls(brs, k)
           /\ IF found
              THEN /\ tpc' = "yielded"
                   /\ bidx' = k
                   /\ bpc' = "start"
                   /\ out' = Append(out, Item("branch", brs[k].name, <<>>, <<>>, <<>>))
              ELSE /\ tpc' = "done"
                   /\ bidx' = Len(brs)
                   /\ bpc' = "idle"
                   /\ out' = out
    /\ diff_files' = <<>>
    /\ fidx' = 0
    /\ fpc' = "idle"
    \* branch_header_shown = False for the branch display takes
    /\ branch_header_shown' = IF found THEN FALSE ELSE branch_header_shown
    /\ UNCHANGED <<wrapper, cfg, repo, err, fgvars, pvars, owners, file_header_shown, shown>>

TrackYield == TrackCanResume /\ TrackLoop(TRUE)

TrackStop == TrackCanResume /\ TrackLoop(FALSE)

(* next() on the _track_branch generator of branches[bidx] *)

BranchCanResume ==
    /\ err = "none"
    /\ bpc \in {"start", "yielded"}
    /\ fpc \in {"idle", "done"}

BranchPatternsOk ==
    /\ ReCompile(OrEmpty(cfg.files)).ok
    /\ ReCompile(OrEmpty(cfg.no_files)).ok

BranchName == branches[bidx].name

\* re.compile raises on the include or the exclude alternation
BranchBadPattern ==
    /\ BranchCanResume
    /\ bpc = "start"
    /\ ~BranchPatternsOk
    /\ bpc' = "raised"
    /\ err' = "re.error"
    /\ UNCHANGED <<wrapper, cfg, repo, tpc, branches, bidx, diff_files, fidx, fpc, calls, out,
                   fgvars, pvars, dvars>>

\* get_merge_base fails
BranchMergeBaseFail ==
    /\ BranchCanResume
    /\ bpc = "start"
    /\ BranchPatternsOk
    /\ calls' = Append(calls, Call("get_merge_base", BranchName, BranchName, <<>>, 1, 0,
                                   "self._wrapper"))
    /\ bpc' = "raised"
    /\ err' = "CalledProcessError"
    /\ UNCHANGED <<wrapper, cfg, repo, tpc, branches, bidx, diff_files, fidx, fpc, out,
                   fgvars, pvars, dvars>>

\* get_diff_files fails
BranchDiffFail ==
    /\ BranchCanResume
    /\ bpc = "start"
    /\ BranchPatternsOk
    /\ calls' = calls \o
                << Call("get_merge_base", BranchName, BranchName, <<>>, 0, 1, "self._wrapper"),
                   Call("get_diff_files", BranchName, MergeBase(BranchName), <<>>, 1, 0,
                        "self._wrapper") >>
    /\ bpc' = "raised"
    /\ err' = "CalledProcessError"
    /\ UNCHANGED <<wrapper, cfg, repo, tpc, branches, bidx, diff_files, fidx, fpc, out,
                   fgvars, pvars, dvars>>

\* the loop runs to its next yield (found) or to its end
BranchLoop(found) ==
    /\ bpc = "start" => BranchPatternsOk
    /\ LET files == IF bpc = "start" THEN repo.diff[BranchName] ELSE diff_files
           k == NextFileIndex(cfg, files, fidx)
       IN  /\ found = (k # 0)
           /\ diff_files' = files
           /\ calls' = IF bpc = "start"
                       THEN calls \o
                            << Call("get_merge_base", BranchName, BranchName, <<>>, 0, 1,
                                    "self._wrapper"),
                               Call("get_diff_files", BranchName, MergeBase(BranchName),
                                    <<>>, 0, Len(files), "self._wrapper") >>
                       ELSE calls
           /\ IF found
              THEN /\ bpc' = "yielded"
                   /\ fidx' = k
                   /\ fpc' = "start"
                   /\ out' = Append(out, Item("file", BranchName, files[k], <<>>, <<>>))
              ELSE /\ bpc' = "done"
                   /\ fidx' = Len(files)
                   /\ fpc' = "idle"
                   /\ out' = out
    /\ FileGenReset
    \* file_header_shown = False for the file display takes
    /\ file_header_shown' = IF found THEN FALSE ELSE file_header_shown
    /\ UNCHANGED <<wrapper, cfg, repo, tpc, branches, bidx, err, pvars, owners,
                   branch_header_shown, shown>>

BranchYield == BranchCanResume /\ BranchLoop(TRUE)

BranchStop == BranchCanResume /\ BranchLoop(FALSE)

(* next() on the _track_file generator of (branches[bidx], diff_files[fidx]) *)

FileCanResume ==
    /\ err = "none"
    /\ fpc \in {"start", "yielded"}

FilePath == diff_files[fidx]

\* what the generator keeps of the opcode the loop stopped at
Scanned(cs, bb, bm, s1, s2, mb, ops, sc) ==
    [calls |-> cs, bb |-> bb, bm |-> bm, s1 |-> s1, s2 |-> s2, mb |-> mb, ops |-> ops,
     kind |-> sc.kind, at |-> sc.at]

\* matcher.get_opcodes() and the loop over the opcodes, first resumption
Aligned(cs, bb, bm, s1, s2, mb) ==
    Scanned(cs, bb, bm, s1, s2, mb, OpcodeLoop(mb, 1, 0, 0, <<>>),
            ScanOpcodes(bm, bb, OpcodeLoop(mb, 1, 0, 0, <<>>), 1))

\* matcher.set_seq1, matcher.set_seq2
Matched(cs, bb, bm, s1, s2) == Aligned(cs, bb, bm, s1, s2, GetMatchingBlocks(s1, s2))

\* the generator left as it is, but for the calls made and the way it ends
Unchanged(cs, kind) ==
    [calls |-> cs, bb |-> blame_branch, bm |-> blame_master, s1 |-> a, s2 |-> b,
     mb |-> matching_blocks, ops |-> opcodes, kind |-> kind, at |-> oi]

BlameCall(rev, rc, g) ==
    Call("get_blame_file", BranchName, rev, FilePath, rc, Len(g.result), "wrapper")

\* blame_master taken from the branch retrieval, the mainline never asked
EnteredMutOneBlame(rcB, gB, rcM, gM) ==
    IF gB.pc # "returned"
    THEN Unchanged(Append(calls, BlameCall(BranchName, rcB, gB)), gB.pc)
    ELSE Matched(Append(calls, BlameCall(BranchName, rcB, gB)),
                 gB.result, gB.result,
                 TrimmedContents(gB.result), TrimmedContents(gB.result))

\* the body up to the loop, given what the two get_blame_file calls come to
Entered(rcB, gB, rcM, gM) ==
    IF wrapper = Unbound
    THEN Unchanged(calls, "NameError")
    ELSE IF gB.pc # "returned"
    THEN Unchanged(Append(calls, BlameCall(BranchName, rcB, gB)), gB.pc)
    ELSE IF gM.pc # "returned"
    THEN Unchanged(calls \o <<BlameCall(BranchName, rcB, gB), BlameCall(Master, rcM, gM)>>,
                   gM.pc)
    ELSE Matched(calls \o <<BlameCall(BranchName, rcB, gB), BlameCall(Master, rcM, gM)>>,
                 gB.result, gM.result,
                 TrimmedContents(gM.result), TrimmedContents(gB.result))

\* The generator from this resumption to its next yield, return or raise, where
\* git exits with rcB and rcM on the two blame calls if it comes to them.
FileOutcome(rcB, rcM) ==
    IF fpc = "start"
    THEN Entered(rcB, GetBlameFile(rcB, BlameOutput(repo, BranchName, FilePath)),
                 rcM, GetBlameFile(rcM, BlameOutput(repo, Master, FilePath)))
    ELSE Scanned(calls, blame_branch, blame_master, a, b, matching_blocks, opcodes,
                 ScanOpcodes(blame_master, blame_branch, opcodes, oi + 1))

(* GitReporter.display: what it does with what the generators hand it *)

\* str.strip(chars)
RECURSIVE LStripOf(_, _)
LStripOf(s, chars) ==
    IF s # <<>> /\ Head(s) \in chars THEN LStripOf(Tail(s), chars) ELSE s

RECURSIVE RStripOf(_, _)
RStripOf(s, chars) ==
    IF s # <<>> /\ s[Len(s)] \in chars THEN RStripOf(SubSeq(s, 1, Len(s) - 1), chars) ELSE s

\* {x['author-mail'].strip('<>') for x in blames}
DisplayAuthors(blames) ==
    {RStripOf(LStripOf(blames[i]["author-mail"], {"<", ">"}), {"<", ">"}) :
        i \in DOMAIN blames}

\* the two `continue` conditions on a block
OwnersSkipMutSwapped(ow, authors_master, authors_branch) ==
    \/ ow.given /\ ow.set \cap authors_master = {}
    \/ ow.given /\ authors_master \ authors_branch = {}

OwnersSkip(ow, authors_master, authors_branch) ==
    \/ ow.given /\ ow.set \cap authors_master = {}
    \/ ow.given /\ authors_branch \ authors_master = {}

Printed(kind, branch, file_path, master, brn) ==
    [kind |-> kind, branch |-> branch, file |-> file_path, master |-> master, brn |-> brn]

DisplayNothing ==
    [shown |-> shown, branch_header_shown |-> branch_header_shown,
     file_header_shown |-> file_header_shown]

\* the body of the innermost loop on the block (blames_master, blames_branch)
DisplayBlock(blames_master, blames_branch) ==
    IF OwnersSkip(owners, DisplayAuthors(blames_master), DisplayAuthors(blames_branch))
    THEN DisplayNothing
    ELSE [shown |->
             shown
             \o (IF branch_header_shown THEN <<>>
                 ELSE <<Printed("branch header", BranchName, <<>>, <<>>, <<>>)>>)
             \o (IF file_header_shown
                 THEN <<Printed("ruler", BranchName, FilePath, <<>>, <<>>)>>
                 ELSE <<Printed("file header", BranchName, FilePath, <<>>, <<>>)>>)
             \o <<Printed("block", BranchName, FilePath, blames_master, blames_branch)>>,
          branch_header_shown |-> TRUE,
          file_header_shown |-> TRUE]

\* after the innermost loop: the footer of a file whose header was printed
DisplayFileEnd ==
    [shown |-> IF file_header_shown
               THEN Append(shown, Printed("footer", BranchName, FilePath, <<>>, <<>>))
               ELSE shown,
     branch_header_shown |-> branch_header_shown,
     file_header_shown |-> file_header_shown]

\* the exit status of each git blame when git does not fail
RcsOk == <<BlameRc(repo, BranchName, FilePath), BlameRc(repo, Master, FilePath)>>

\* the exit statuses when one git blame fails: the first (the second is then
\* never run), or the second
RcsFail == {<<1, 0>>, <<BlameRc(repo, BranchName, FilePath), 1>>}

FileResume(rcs, kinds) ==
    /\ \E o \in {FileOutcome(rcs[1], rcs[2])} :
          /\ o.kind \in kinds
          /\ calls' = o.calls
          /\ blame_branch' = o.bb
          /\ blame_master' = o.bm
          /\ a' = o.s1
          /\ b' = o.s2
          /\ matching_blocks' = o.mb
          /\ opcodes' = o.ops
          /\ oi' = o.at
          /\ mpc' = IF o.kind \in {"yield", "stop"} THEN "opcodes" ELSE mpc
          /\ fpc' = CASE o.kind = "yield" -> "yielded"
                      [] o.kind = "stop" -> "done"
                      [] OTHER -> "raised"
          /\ err' = IF o.kind \in {"yield", "stop"} THEN "none" ELSE o.kind
          /\ out' = IF o.kind = "yield"
                    THEN Append(out,
                             Item("block", BranchName, FilePath,
                                  Slice(o.bm, o.ops[o.at].i1, o.ops[o.at].i2),
                                  Slice(o.bb, o.ops[o.at].j1, o.ops[o.at].j2)))
                    ELSE out
          /\ \E d \in {IF o.kind = "yield"
                        THEN DisplayBlock(Slice(o.bm, o.ops[o.at].i1, o.ops[o.at].i2),
                                          Slice(o.bb, o.ops[o.at].j1, o.ops[o.at].j2))
                        ELSE IF o.kind = "stop" THEN DisplayFileEnd
                        ELSE DisplayNothing} :
                /\ shown' = d.shown
                /\ branch_header_shown' = d.branch_header_shown
                /\ file_header_shown' = d.file_header_shown
    /\ UNCHANGED <<wrapper, cfg, repo, tpc, branches, bidx, bpc, diff_files, fidx, queue,
                   pvars, owners>>

\* every way a resumption of the generator can end
Outcomes ==
    {"yield", "stop", "CalledProcessError", "Exception", "IndexError", "KeyError",
     "NameError"}

\* a git blame exits with a status other than 0 and 128
FileBlameFail ==
    /\ FileCanResume
    /\ fpc = "start"
    /\ wrapper # Unbound
    /\ \E rcs \in RcsFail : FileResume(rcs, Outcomes)

\* git does not fail and the generator raises: the parsing loop does, or a record
\* has no 'author-mail'
FileRaise == FileCanResume /\ FileResume(RcsOk, Outcomes \ {"yield", "stop"})

\* the loop over the opcodes reaches a block it yields
FileYield == FileCanResume /\ FileResume(RcsOk, {"yield"})

\* the loop over the opcodes ends
FileStop == FileCanResume /\ FileResume(RcsOk, {"stop"})

Next ==
    \/ TrackBadPattern
    \/ TrackListFail
    \/ TrackYield
    \/ TrackStop
    \/ BranchBadPattern
    \/ BranchMergeBaseFail
    \/ BranchDiffFail
    \/ BranchYield
    \/ BranchStop
    \/ FileBlameFail
    \/ FileRaise
    \/ FileYield
    \/ FileStop

Spec == Init /\ [][Next]_vars

-----------------------------------------------------------------------------
(* One _track_file generator, over every small pair of versions of a file *)

\* the lines a version of the file may hold
SrcLines ==
    {Ln(m, t) : m \in {MailA, MailB}, t \in {<<"x">>, <<"y">>}} \cup {Ln(MailB, <<" ", "x">>)}

\* a version of the file: absent, some lines, or one line of a boundary commit
FileVersions ==
    {Absent} \cup {Present(ls) : ls \in SeqsUpTo(SrcLines, MaxBlameLen)}
             \cup {Present(<<[mail |-> MailA, text |-> <<"x">>, boundary |-> TRUE]>>)}

\* a repository whose branch f1 changed the file p
FileRepo(vm, vb) ==
    [branches |-> << [name |-> F1, date |-> 1] >>,
     diff |-> (F1 :> <<FileP>>),
     blame |-> (<<Master, FileP>> :> vm) @@ (<<F1, FileP>> :> vb)]

\* display has taken f1 from track() and p from _track_branch(f1)
InitFile ==
    /\ cfg = [NoCfg EXCEPT !.wrapper = Handle1]
    /\ wrapper = Handle1
    /\ owners = NoOwners
    /\ DisplayStart
    /\ repo \in {FileRepo(vm, vb) : vm \in FileVersions, vb \in FileVersions}
    /\ tpc = "yielded"
    /\ branches = repo.branches
    /\ bidx = 1
    /\ bpc = "yielded"
    /\ diff_files = <<FileP>>
    /\ fidx = 1
    /\ fpc = "start"
    /\ FileGenIdle
    /\ calls = << Call("get_branches", <<>>, <<>>, <<>>, 0, 1, "self._wrapper"),
                  Call("get_merge_base", F1, F1, <<>>, 0, 1, "self._wrapper"),
                  Call("get_diff_files", F1, MergeBase(F1), <<>>, 0, 1, "self._wrapper") >>
    /\ out = << Item("branch", F1, <<>>, <<>>, <<>>), Item("file", F1, FileP, <<>>, <<>>) >>
    /\ err = "none"
    /\ ParserIdle

NextFile ==
    \/ FileBlameFail
    \/ FileRaise
    \/ FileYield
    \/ FileStop

SpecFile == InitFile /\ [][NextFile]_vars

-----------------------------------------------------------------------------
(* display on one file's block stream, with and without an owner filter *)

\* the most lines a version of the displayed file holds
MaxShowLen == 3

\* the lines a version of the file may hold
ShowLines == {Ln(MailA, <<"x">>), Ln(MailB, <<"x">>), Ln(MailB, <<"y">>)}

ShowVersions ==
    {Absent} \cup {Present(ls) : ls \in SeqsUpTo(ShowLines, MaxShowLen)}
             \cup {Present(<<[mail |-> MailA, text |-> <<"x">>, boundary |-> TRUE]>>)}

\* display has taken f1 from track() and p from _track_branch(f1)
InitShow ==
    /\ cfg = [NoCfg EXCEPT !.wrapper = Handle1]
    /\ wrapper = Handle1
    /\ owners \in OwnerSets
    /\ DisplayStart
    /\ repo \in {FileRepo(vm, vb) : vm \in ShowVersions, vb \in ShowVersions}
    /\ tpc = "yielded"
    /\ branches = repo.branches
    /\ bidx = 1
    /\ bpc = "yielded"
    /\ diff_files = <<FileP>>
    /\ fidx = 1
    /\ fpc = "start"
    /\ FileGenIdle
    /\ calls = << Call("get_branches", <<>>, <<>>, <<>>, 0, 1, "self._wrapper"),
                  Call("get_merge_base", F1, F1, <<>>, 0, 1, "self._wrapper"),
                  Call("get_diff_files", F1, MergeBase(F1), <<>>, 0, 1, "self._wrapper") >>
    /\ out = << Item("branch", F1, <<>>, <<>>, <<>>), Item("file", F1, FileP, <<>>, <<>>) >>
    /\ err = "none"
    /\ ParserIdle

SpecShow == InitShow /\ [][NextFile]_vars

-----------------------------------------------------------------------------
(* The walk of a GitTracker built by a caller other than __main__: whatever  *)
(* the caller passes as the handle, and whatever the module's global         *)
(* `wrapper` is bound to, if it is bound.                                    *)

Handles == {Handle1, Handle2}

InitLib ==
    /\ cfg \in {[c EXCEPT !.wrapper = h] : c \in Configs, h \in Handles}
    /\ wrapper \in Handles \cup {Unbound}
    /\ owners = NoOwners
    /\ DisplayStart
    /\ repo = WalkRepo
    /\ tpc = "start"
    /\ branches = <<>>
    /\ bidx = 0
    /\ bpc = "idle"
    /\ diff_files = <<>>
    /\ fidx = 0
    /\ fpc = "idle"
    /\ FileGenIdle
    /\ calls = <<>>
    /\ out = <<>>
    /\ err = "none"
    /\ ParserIdle

SpecLib == InitLib /\ [][Next]_vars

-----------------------------------------------------------------------------
(* Alignment properties *)

\* the opcodes, left to right, tile [0, la) and [0, lb)
Tiles(ops, la, lb) ==
    /\ \A k \in DOMAIN ops :
          /\ ops[k].i1 <= ops[k].i2
          /\ ops[k].j1 <= ops[k].j2
          /\ ops[k].i1 = (IF k = 1 THEN 0 ELSE ops[k - 1].i2)
          /\ ops[k].j1 = (IF k = 1 THEN 0 ELSE ops[k - 1].j2)
    /\ (IF ops = <<>> THEN 0 ELSE ops[Len(ops)].i2) = la
    /\ (IF ops = <<>> THEN 0 ELSE ops[Len(ops)].j2) = lb

\* C4: the opcodes come in left-to-right order and their mainline ranges
\* partition [0, len(A)) and their branch ranges [0, len(B)), without gap or
\* overlap.
C4_OpcodesPartition == mpc = "opcodes" => Tiles(opcodes, Len(a), Len(b))

\* an alignment with a replace, an equal and a trailing run
C4_Witness ==
    /\ mpc = "opcodes"
    /\ Len(opcodes) >= 3
    /\ \E k \in DOMAIN opcodes : opcodes[k].tag = "replace"
    /\ opcodes[Len(opcodes)].tag # "equal"

RECURSIVE SumLen(_, _)
SumLen(ops, n) ==
    IF n = 0 THEN 0
    ELSE SumLen(ops, n - 1)
         + (IF ops[n].tag = "equal" THEN ops[n].i2 - ops[n].i1 ELSE 0)

\* the total length of the equal-tagged mainline ranges
EqualTotal(ops) == SumLen(ops, Len(ops))

\* the length of the longest common subsequence, by the textbook recurrence
RECURSIVE LCS(_, _)
LCS(s, t) ==
    IF s = <<>> \/ t = <<>> THEN 0
    ELSE IF Head(s) = Head(t) THEN 1 + LCS(Tail(s), Tail(t))
    ELSE LET p == LCS(Tail(s), t)
             q == LCS(s, Tail(t))
         IN  IF p >= q THEN p ELSE q

\* C5 as claimed: the equal-tagged ranges add up to the length of the longest
\* common subsequence of A and B.
C5_EqualTotalIsLCS == mpc = "opcodes" => EqualTotal(opcodes) = LCS(a, b)

\* C5 as amended: every equal-tagged opcode pairs ranges of the same length
\* that hold the same items, and the equal-tagged ranges add up to at most the
\* length of the longest common subsequence.
C5_EqualTotalAtMostLCS ==
    mpc = "opcodes" =>
        /\ \A k \in DOMAIN opcodes :
              opcodes[k].tag = "equal" =>
                  Slice(a, opcodes[k].i1, opcodes[k].i2)
                      = Slice(b, opcodes[k].j1, opcodes[k].j2)
        /\ EqualTotal(opcodes) <= LCS(a, b)

\* an alignment whose equal ranges fall short of the longest common subsequence
C5_Witness ==
    /\ mpc = "opcodes"
    /\ EqualTotal(opcodes) > 0
    /\ EqualTotal(opcodes) < LCS(a, b)

\* C6 as claimed: aligning A with itself gives exactly one opcode, tagged
\* equal, spanning all of A, the empty A included.
C6_SelfAlignOneEqual ==
    (mpc = "opcodes" /\ a = b) =>
        opcodes = <<[tag |-> "equal", i1 |-> 0, i2 |-> Len(a), j1 |-> 0, j2 |-> Len(a)]>>

\* C6 as amended: aligning a non-empty A with itself gives exactly one opcode,
\* tagged equal, spanning all of A; aligning the empty sequence with itself
\* gives no opcode.
C6_SelfAlign ==
    (mpc = "opcodes" /\ a = b) =>
        opcodes = IF a = <<>>
                  THEN <<>>
                  ELSE <<[tag |-> "equal", i1 |-> 0, i2 |-> Len(a),
                          j1 |-> 0, j2 |-> Len(a)]>>

\* a sequence with a repeated item, aligned with itself
C6_Witness ==
    /\ mpc = "opcodes"
    /\ a = b
    /\ Len(a) = 3
    /\ a[1] = a[3]
    /\ a[1] # a[2]

-----------------------------------------------------------------------------
(* Ownership properties *)

\* the author-mail values of a slice of records
MailsOf(records) == {r["author-mail"] : r \in Range(records)}

IsBlock(item) == item.kind = "block"

\* the blocks yielded so far
Blocks == SelectSeq(out, IsBlock)

\* C1: of the non-equal opcodes the loop has taken, exactly those whose mainline
\* slice has an author-mail that no record of the branch slice has were
\* yielded, each as the pair (mainline slice, branch slice), in opcode order.
C1_YieldIffNotSubset ==
    fpc \in {"yielded", "done"} =>
        LET Flagged(op) ==
                /\ op.tag # "equal"
                /\ ~(MailsOf(Slice(blame_master, op.i1, op.i2))
                        \subseteq MailsOf(Slice(blame_branch, op.j1, op.j2)))
            expected == SelectSeq(SubSeq(opcodes, 1, oi), Flagged)
        IN  /\ Len(Blocks) = Len(expected)
            /\ \A k \in DOMAIN expected :
                  /\ Blocks[k].master = Slice(blame_master, expected[k].i1, expected[k].i2)
                  /\ Blocks[k].brn = Slice(blame_branch, expected[k].j1, expected[k].j2)

\* a two-line mainline block was yielded against a branch block that has none
\* of its authors
C1_Witness ==
    /\ fpc = "yielded"
    /\ Len(Blocks) = 1
    /\ Len(Blocks[1].master) = 2
    /\ Blocks[1].brn # <<>>
    /\ MailsOf(Blocks[1].master) \cap MailsOf(Blocks[1].brn) = {}

-----------------------------------------------------------------------------
(* Well-formed attribution input, stated on the lines alone *)

IsContentLine(line) == StartsWith(line, <<"\t">>)

IsMetaLine(line) == KeywordOf(line) # 0

\* <hash> <origLine> <finalLine> [groupSize]
IsHeaderLine(line) ==
    /\ ~IsContentLine(line)
    /\ ~IsMetaLine(line)
    /\ Len(Split(line)) \in {3, 4}

\* lines[from..] is a sequence of blocks; inBlock says a header has been read
\* and its content line has not
RECURSIVE IsBlocks(_, _, _)
IsBlocks(lines, from, inBlock) ==
    IF from > Len(lines) THEN ~inBlock
    ELSE IF ~inBlock THEN IsHeaderLine(lines[from]) /\ IsBlocks(lines, from + 1, TRUE)
    ELSE IF IsMetaLine(lines[from]) THEN IsBlocks(lines, from + 1, TRUE)
    ELSE IsContentLine(lines[from]) /\ IsBlocks(lines, from + 1, FALSE)

WellFormed(lines) == IsBlocks(lines, 1, FALSE)

ContentLines(lines) == SelectSeq(lines, IsContentLine)

HeaderLines(lines) == SelectSeq(lines, IsHeaderLine)

\* C2: on a well-formed input of n blocks the loop returns n records, in input
\* order; record i holds content line i less its leading tab, and token 2 of
\* header line i as its line number.
C2_RoundTrip ==
    (ppc = "returned" /\ WellFormed(output)) =>
        /\ Len(result) = Len(ContentLines(output))
        /\ Len(result) = Len(HeaderLines(output))
        /\ \A i \in DOMAIN result :
              /\ <<"\t">> \o result[i]["content"] = ContentLines(output)[i]
              /\ result[i]["lineno"] = Split(HeaderLines(output)[i])[3]

\* two blocks, one with a metadata line, returned
C2_Witness ==
    /\ ppc = "returned"
    /\ WellFormed(output)
    /\ Len(result) = 2
    /\ result[1]["content"] # result[2]["content"]
    /\ \E i \in DOMAIN output : IsMetaLine(output[i])

\* a record is in progress and the next line is neither a keyword line nor a
\* content line
AtUnrecognized ==
    /\ ppc = "loop"
    /\ position < Len(output)
    /\ DOMAIN blockinfo # {}
    /\ KeywordOf(output[position + 1]) = 0
    /\ ~StartsWith(output[position + 1], <<"\t">>)

\* C3: such a line aborts the parse: the loop raises on it without moving past
\* it or adding a record, and nothing happens after the raise (no return, no
\* further line).
C3_UnrecognizedAborts ==
    [][/\ AtUnrecognized =>
            (ppc' = "Exception" /\ position' = position /\ result' = result)
       /\ ppc = "Exception" => FALSE]_vars

\* the loop has raised on an unrecognized line that has lines after it
C3_Witness ==
    /\ ppc = "Exception"
    /\ position + 1 < Len(output)
    /\ DOMAIN blockinfo # {}
    /\ result # <<>>

-----------------------------------------------------------------------------
(* Walk properties *)

\* the branch criteria, stated on their own: some include pattern occurs in the
\* name (letter case ignored) when includes are given, no exclude pattern does,
\* and the author date lies within the bounds given
BranchPasses(br) ==
    /\ cfg.branches.given =>
          \E i \in DOMAIN cfg.branches.list :
             Contains(LowerSeq(br.name), LowerSeq(cfg.branches.list[i]))
    /\ cfg.no_branches.given =>
          \A i \in DOMAIN cfg.no_branches.list :
             ~Contains(LowerSeq(br.name), LowerSeq(cfg.no_branches.list[i]))
    /\ cfg.after_date.given => br.date >= cfg.after_date.date
    /\ cfg.before_date.given => br.date <= cfg.before_date.date

\* the file criteria, stated on their own
FilePasses(file_path) ==
    /\ cfg.files.given =>
          \E i \in DOMAIN cfg.files.list :
             Contains(LowerSeq(file_path), LowerSeq(cfg.files.list[i]))
    /\ cfg.no_files.given =>
          \A i \in DOMAIN cfg.no_files.list :
             ~Contains(LowerSeq(file_path), LowerSeq(cfg.no_files.list[i]))

IsBlame(c) == c.op = "get_blame_file"

PerBranchOps == {"get_merge_base", "get_diff_files", "get_blame_file"}

\* the diff-file list of the branch was obtained before call k
DiffListedBefore(k) ==
    \E j \in 1..(k - 1) :
       /\ calls[j].op = "get_diff_files"
       /\ calls[j].branch = calls[k].branch
       /\ calls[j].rc = 0

\* C7: every merge-base, diff-file-list and blame call is made for a branch of
\* the listing that passes the branch-name and author-date filters and that was
\* yielded before; every blame call is moreover made for a file of that branch's
\* diff list, obtained earlier, that passes the file-path filters and that was
\* yielded before.
C7_CallsOnlyAfterFilters ==
    \A k \in DOMAIN calls :
       /\ calls[k].op \in PerBranchOps =>
             /\ \E br \in Range(repo.branches) :
                   br.name = calls[k].branch /\ BranchPasses(br)
             /\ \E item \in Range(out) :
                   item.kind = "branch" /\ item.branch = calls[k].branch
       /\ IsBlame(calls[k]) =>
             /\ DiffListedBefore(k)
             /\ calls[k].file \in Range(repo.diff[calls[k].branch])
             /\ FilePasses(calls[k].file)
             /\ \E item \in Range(out) :
                   /\ item.kind = "file"
                   /\ item.branch = calls[k].branch
                   /\ item.file = calls[k].file

\* C7 witness: the walk has ended under criteria that exclude a branch and
\* include only some files, having blamed q of f1 and skipped p of f1 and all of F2
C7_Witness ==
    /\ tpc = "done"
    /\ cfg.no_branches = Some(<< <<"2">> >>)
    /\ cfg.files = Some(<< <<"Q">>, <<"r">> >>)
    /\ \E k \in DOMAIN calls :
          IsBlame(calls[k]) /\ calls[k].branch = F1 /\ calls[k].file = FileQ
    /\ \A k \in DOMAIN calls : calls[k].branch # F2 /\ calls[k].file # FileP

\* a backend call that failed: any exit status but 0, and but 128 for blame
Failing(c) == c.rc # 0 /\ ~(IsBlame(c) /\ c.rc = 128)

HasFailed == \E k \in DOMAIN calls : Failing(calls[k])

\* C8: a failing backend call is the last call of the walk and leaves the walk
\* as CalledProcessError; the step that makes it yields nothing, and once a call
\* has failed no further call is made and no further item is yielded.
C8_FailureEndsWalk ==
    [][/\ \A k \in DOMAIN calls' :
             Failing(calls'[k]) => (k = Len(calls') /\ err' = "CalledProcessError")
       /\ (\E k \in DOMAIN calls' : k > Len(calls) /\ Failing(calls'[k])) => out' = out
       /\ HasFailed => (calls' = calls /\ out' = out)]_vars

\* C8 witness: the blame of the mainline revision failed after the branch, the file
\* and the blame of the branch revision went well, and the walk ended with the failure
C8_Witness ==
    /\ err = "CalledProcessError"
    /\ fpc = "raised"
    /\ Len(out) >= 2
    /\ Len(calls) >= 5
    /\ Failing(calls[Len(calls)])
    /\ IsBlame(calls[Len(calls)])
    /\ calls[Len(calls)].rev = Master
    /\ ~Failing(calls[Len(calls) - 1])

\* C9: every blame call that ended with exit status 128 returned no record and
\* raised nothing: when it is the last call made, the walk has no error and, unless
\* the whole walk is over, has a next step; and parsing no line returns no record.
C9_AbsentFileIsEmpty ==
    /\ ParseAll(<<>>) = [result |-> <<>>, blockinfo |-> EmptyDict, pc |-> "returned"]
    /\ \A k \in DOMAIN calls :
          (IsBlame(calls[k]) /\ calls[k].rc = 128) =>
             /\ calls[k].nret = 0
             /\ k = Len(calls) =>
                   /\ err = "none"
                   /\ tpc # "done" => ENABLED Next

\* C9 witness: q is absent from F2 and r from the mainline; both blames came back
\* empty, the deletion of q was yielded as a block, and the walk went on from q to
\* r and from r to its end
C9_Witness ==
    /\ tpc = "done"
    /\ err = "none"
    /\ \E j, k \in DOMAIN calls :
          /\ j < k /\ k = Len(calls)
          /\ IsBlame(calls[j]) /\ calls[j].rc = 128 /\ calls[j].rev = F2
          /\ calls[j].file = FileQ
          /\ IsBlame(calls[k]) /\ calls[k].rc = 128 /\ calls[k].rev = Master
          /\ calls[k].file = FileR
    /\ \E item \in Range(out) :
          item.kind = "block" /\ item.branch = F2 /\ item.file = FileQ /\ item.brn = <<>>

\* C10: when a pattern fails to compile, the error is raised before any backend
\* call has been made.
C10_BadPatternBeforeAnyCall == err = "re.error" => calls = <<>>

-----------------------------------------------------------------------------
(* Branch selection *)

IsBranchItem(item) == item.kind = "branch"

\* the names of the branches track() has yielded, in order
YieldedBranches ==
    LET items == SelectSeq(out, IsBranchItem)
    IN  [k \in DOMAIN items |-> items[k].branch]

\* the names of the branches of the listing, up to the n-th, that meet the
\* criteria, in listing order
PassingBranches(n) ==
    LET passing == SelectSeq(SubSeq(repo.branches, 1, n), BranchPasses)
    IN  [k \in DOMAIN passing |-> passing[k].name]

\* C11: the branches track() has yielded are exactly the branches of the listing
\* it has gone through that meet the criteria (an include pattern found when
\* includes are given, no exclude pattern found, author date within the bounds,
\* the bounds themselves allowed), in listing order: all of the listing once
\* track() is exhausted; and merge-base and diff-file-list calls were made for
\* yielded branches only.
C11_YieldsExactlyPassing ==
    /\ tpc \in {"yielded", "done"} => YieldedBranches = PassingBranches(bidx)
    /\ tpc = "done" => bidx = Len(repo.branches)
    /\ \A k \in DOMAIN calls :
          calls[k].op \in {"get_merge_base", "get_diff_files"} =>
             calls[k].branch \in Range(YieldedBranches)

\* C11 witness: track() is exhausted under a lower date bound equal to the
\* mainline's author date and an include list; the mainline and F2 were yielded,
\* f1 was not, and only the yielded branches were diffed
C11_Witness ==
    /\ tpc = "done"
    /\ cfg.after_date = SomeDate(2)
    /\ cfg.branches = Some(<< <<"2">>, <<"m">> >>)
    /\ YieldedBranches = <<Master, F2>>
    /\ \E k \in DOMAIN calls : calls[k].op = "get_diff_files" /\ calls[k].branch = F2

-----------------------------------------------------------------------------
(* A file the mainline does not have *)

\* the file under analysis is absent at the mainline tip and present at the
\* branch tip
AddedOnBranch ==
    /\ fpc # "idle"
    /\ ~repo.blame[<<Master, FilePath>>].present
    /\ repo.blame[<<BranchName, FilePath>>].present

\* the one insert opcode that covers a branch sequence of n records
WholeInsert(n) == <<[tag |-> "insert", i1 |-> 0, i2 |-> 0, j1 |-> 0, j2 |-> n]>>

\* C12 as stated: for a file absent at the mainline tip and present at the branch
\* tip, the alignment is a single insert opcode covering the whole branch
\* sequence and no block is yielded.
C12_AddedFileOneInsert ==
    (AddedOnBranch /\ fpc = "done") =>
        /\ opcodes = WholeInsert(Len(blame_branch))
        /\ Blocks = <<>>

\* C12 amended: for a file absent at the mainline tip and present at the branch
\* tip no block is ever yielded; once the analysis is over the mainline sequence
\* is empty, and the alignment is a single insert opcode covering the whole
\* branch sequence when that sequence has a record, and has no opcode when it
\* has none.
C12_AddedFileNoBlock ==
    AddedOnBranch =>
        /\ Blocks = <<>>
        /\ fpc # "yielded"
        /\ fpc = "done" =>
              /\ blame_master = <<>>
              /\ Len(blame_branch) = Len(repo.blame[<<BranchName, FilePath>>].lines)
              /\ opcodes = IF blame_branch = <<>> THEN <<>>
                           ELSE WholeInsert(Len(blame_branch))

\* C12 witness: a file of two lines by two authors, absent at the mainline tip,
\* was analysed to the end
C12_Witness ==
    /\ AddedOnBranch
    /\ fpc = "done"
    /\ Len(blame_branch) = 2
    /\ MailsOf(blame_branch) = {MailA, MailB}
    /\ opcodes = WholeInsert(2)

-----------------------------------------------------------------------------
(* The accumulator and the sealed records *)

\* The lines[1..n] the loop has processed, followed on the lines alone: whether a
\* record is in progress after them and how many content lines were met while
\* one was.  A line met while none is in progress opens one, whatever it is.
RECURSIVE Scan(_, _)
Scan(lines, n) ==
    IF n = 0 THEN [open |-> FALSE, sealed |-> 0]
    ELSE LET before == Scan(lines, n - 1)
         IN  IF ~before.open THEN [open |-> TRUE, sealed |-> before.sealed]
             ELSE IF IsContentLine(lines[n])
                  THEN [open |-> FALSE, sealed |-> before.sealed + 1]
                  ELSE [open |-> TRUE, sealed |-> before.sealed]

SealedFields == {"hash", "lineno", "content"}

\* the loop is between two lines, or has returned
BetweenLines == ppc \in {"loop", "returned"}

\* what C13 and its amendment share: one record per content line processed while
\* a record was in progress, each with hash, line number and content; the
\* record in progress has no content and is not in the result.
SealedOnly ==
    /\ Len(result) = Scan(output, position).sealed
    /\ \A i \in DOMAIN result : SealedFields \subseteq DOMAIN result[i]
    /\ "content" \notin DOMAIN blockinfo
    /\ ppc = "returned" => position = Len(output)

\* C13 as stated: after any processed prefix the accumulator is empty exactly
\* when no line has been processed or the last processed line was a content
\* line; the result holds one record per content line processed while a record
\* was in progress, each with hash, line number and content; an input that ends
\* inside a block returns the sealed records only.
C13_EmptyIffAfterContentLine ==
    BetweenLines =>
        /\ blockinfo = EmptyDict <=>
              (position = 0 \/ IsContentLine(output[position]))
        /\ SealedOnly

\* C13 amended: the accumulator is empty exactly when no line has been processed
\* or the last processed line was a content line processed while a record was in
\* progress; the rest as stated.
C13_EmptyIffAfterSealingLine ==
    BetweenLines =>
        /\ blockinfo = EmptyDict <=>
              \/ position = 0
              \/ /\ IsContentLine(output[position])
                 /\ Scan(output, position - 1).open
        /\ SealedOnly

\* C13 witness: the input ended inside a block that a content line opened, after
\* one sealed record; the parse returned that record alone
C13_Witness ==
    /\ ppc = "returned"
    /\ Len(result) = 1
    /\ blockinfo # EmptyDict
    /\ IsContentLine(output[Len(output)])
    /\ \E i \in DOMAIN output : IsMetaLine(output[i])

\* C14: no step of the loop changes a record already in the result: the result
\* only grows at its end.
C14_SealedRecordsKept ==
    [][/\ Len(result') >= Len(result)
       /\ \A i \in DOMAIN result : result'[i] = result[i]]_vars

\* C14 witness: after a first record was sealed the loop processed the header,
\* a metadata line and the content line of a second block with other values
C14_Witness ==
    /\ ppc = "loop"
    /\ position = 5
    /\ Len(result) = 2
    /\ result[1]["hash"] # result[2]["hash"]
    /\ result[1]["content"] # result[2]["content"]
    /\ "author-mail" \in DOMAIN result[2]
    /\ "author-mail" \notin DOMAIN result[1]

-----------------------------------------------------------------------------
(* Line numbers *)

\* the decimal text of n
Decimal(n) == <<Digits[n]>>

\* the final-line token of the i-th header line is i: what git blame prints for
\* a whole file
Numbered(lines) ==
    \A i \in DOMAIN HeaderLines(lines) : Split(HeaderLines(lines)[i])[3] = Decimal(i)

\* C15 as stated: in every returned record sequence the record at 0-based index
\* i has line number i + 1 (so the values never decrease).
C15_LinenoIsPosition ==
    ppc = "returned" => \A k \in DOMAIN result : result[k]["lineno"] = Decimal(k)

\* C15 amended: when the input is well-formed and its headers are numbered 1, 2,
\* ... in order, the record at 0-based index i of the returned sequence has line
\* number i + 1.
C15_LinenoIsPositionWhenNumbered ==
    (ppc = "returned" /\ WellFormed(output) /\ Numbered(output)) =>
        /\ Len(result) = Len(HeaderLines(output))
        /\ \A k \in DOMAIN result : result[k]["lineno"] = Decimal(k)

\* C15 witness: two blocks numbered 1 and 2, whose headers carry other numbers
\* as their original line, were returned
C15_Witness ==
    /\ ppc = "returned"
    /\ WellFormed(output)
    /\ Numbered(output)
    /\ Len(result) = 2
    /\ \E i \in DOMAIN output :
          IsHeaderLine(output[i]) /\ Split(output[i])[2] # Split(output[i])[3]

-----------------------------------------------------------------------------
(* The two retrievals of a file *)

\* call k is the blame of `rev` for the pair (branch, file_path)
IsBlameOf(k, branch, file_path, rev) ==
    /\ IsBlame(calls[k])
    /\ calls[k].branch = branch
    /\ calls[k].file = file_path
    /\ calls[k].rev = rev

\* calls j and j + 1 are the two retrievals of the pair, the branch tip first,
\* and both came back
BothRetrieved(j, branch, file_path) ==
    /\ j + 1 \in DOMAIN calls
    /\ IsBlameOf(j, branch, file_path, branch)
    /\ IsBlameOf(j + 1, branch, file_path, Master)
    /\ ~Failing(calls[j])
    /\ ~Failing(calls[j + 1])

HasBlock(branch, file_path) ==
    \E item \in Range(out) :
       item.kind = "block" /\ item.branch = branch /\ item.file = file_path

\* C16: the pair's retrievals are made one after the other, the branch tip then
\* the mainline tip, at most once each; when the alignment of a file exists, and
\* whenever a block of a file has been yielded, both retrievals were made and
\* came back, and the sequences aligned are the parsed ones; a file one of
\* whose retrievals failed, or whose parsing raised, has no block.
C16_BothRetrievalsBeforeBlocks ==
    /\ \A k \in DOMAIN calls :
          IsBlame(calls[k]) =>
             /\ calls[k].rev = Master =>
                   k > 1 /\ IsBlameOf(k - 1, calls[k].branch, calls[k].file, calls[k].branch)
             /\ \A j \in DOMAIN calls :
                   (IsBlameOf(j, calls[k].branch, calls[k].file, calls[k].rev)) => j = k
             /\ Failing(calls[k]) => ~HasBlock(calls[k].branch, calls[k].file)
    /\ \A item \in Range(out) :
          item.kind = "block" =>
             \E j \in DOMAIN calls : BothRetrieved(j, item.branch, item.file)
    /\ fpc \in {"yielded", "done"} =>
          /\ BothRetrieved(Len(calls) - 1, BranchName, FilePath)
          /\ Len(blame_branch) = calls[Len(calls) - 1].nret
          /\ Len(blame_master) = calls[Len(calls)].nret
          /\ mpc = "opcodes"
    /\ fpc = "raised" => ~HasBlock(BranchName, FilePath)

\* C16 witness: the first block of q on f1 has just been yielded, the two
\* retrievals of two records each being the last two calls
C16_Witness ==
    /\ fpc = "yielded"
    /\ BranchName = F1
    /\ FilePath = FileQ
    /\ HasBlock(F1, FileQ)
    /\ BothRetrieved(Len(calls) - 1, F1, FileQ)
    /\ calls[Len(calls)].nret = 2
    /\ \E k \in DOMAIN calls : IsBlameOf(k, F1, FileP, Master)

-----------------------------------------------------------------------------
(* Laziness *)

\* a merge-base or diff-file-list call for `branch` is among cs
AskedForBranch(cs, branch) ==
    \E k \in DOMAIN cs :
       cs[k].op \in {"get_merge_base", "get_diff_files"} /\ cs[k].branch = branch

\* a blame call for (branch, file_path) is among cs
AskedForFile(cs, branch, file_path) ==
    \E k \in DOMAIN cs :
       IsBlame(cs[k]) /\ cs[k].branch = branch /\ cs[k].file = file_path

\* C17: a step makes a merge-base or diff-file-list call only when it is the
\* consumer's first request on the file stream of that very branch, and a blame
\* call only when it is the consumer's first request on the block stream of
\* that very file; as long as a stream handed to the consumer has not been
\* requested from, no such call has been made for its branch or file.
C17_CallsOnlyOnDemand ==
    [][/\ \A k \in (Len(calls) + 1)..Len(calls') :
             /\ calls'[k].op \in {"get_merge_base", "get_diff_files"} =>
                   /\ bpc = "start"
                   /\ fpc = "idle"
                   /\ calls'[k].branch = BranchName
             /\ IsBlame(calls'[k]) =>
                   /\ fpc = "start"
                   /\ calls'[k].branch = BranchName
                   /\ calls'[k].file = FilePath
       /\ bpc' = "start" => ~AskedForBranch(calls', branches'[bidx'].name)
       /\ fpc' = "start" =>
             ~AskedForFile(calls', branches'[bidx'].name, diff_files'[fidx'])]_vars

\* C17 witness: f1 has been handed to the consumer after the mainline's streams
\* were consumed; the mainline was asked about, f1 not yet
C17_Witness ==
    /\ bpc = "start"
    /\ BranchName = F1
    /\ Len(out) >= 2
    /\ AskedForBranch(calls, Master)
    /\ ~AskedForBranch(calls, F1)

-----------------------------------------------------------------------------
(* Trimmed comparison, untrimmed records *)

\* the lines of the file under analysis at a revision, as the repository has them
SourceLines(rev) == repo.blame[<<rev, FilePath>>].lines

\* the texts of the lines, surrounding whitespace removed
TrimmedTexts(lines) == [i \in DOMAIN lines |-> Strip(lines[i].text)]

\* every record of the slice is a line of `lines` with its text as it is
Untrimmed(records, lines) ==
    \A r \in Range(records) :
       \E n \in DOMAIN lines : r["lineno"] = Decimal(n) /\ r["content"] = lines[n].text

\* C18: every block yielded is the pair of record slices of one non-equal opcode
\* the loop has taken, different blocks coming from different opcodes; when the
\* two versions of the file have the same texts once trimmed, no block is
\* yielded; and the records of a block hold the texts untrimmed.
C18_TrimmedCompareRawRecords ==
    fpc \in {"yielded", "done"} =>
        /\ \E pick \in [DOMAIN Blocks -> 1..oi] :
              /\ \A j, k \in DOMAIN Blocks : j < k => pick[j] < pick[k]
              /\ \A k \in DOMAIN Blocks :
                    /\ opcodes[pick[k]].tag # "equal"
                    /\ Blocks[k].master =
                          Slice(blame_master, opcodes[pick[k]].i1, opcodes[pick[k]].i2)
                    /\ Blocks[k].brn =
                          Slice(blame_branch, opcodes[pick[k]].j1, opcodes[pick[k]].j2)
        /\ TrimmedTexts(SourceLines(Master)) = TrimmedTexts(SourceLines(BranchName)) =>
              (Blocks = <<>> /\ fpc = "done")
        /\ \A k \in DOMAIN Blocks :
              /\ Untrimmed(Blocks[k].master, SourceLines(Master))
              /\ Untrimmed(Blocks[k].brn, SourceLines(BranchName))

\* C18 witness: the branch re-indented a line of the file and every line changed
\* hands; the analysis ended on one equal opcode without a block
C18_Witness ==
    /\ fpc = "done"
    /\ Len(blame_master) = 2
    /\ Len(blame_branch) = 2
    /\ MailsOf(blame_master) \cap MailsOf(blame_branch) = {}
    /\ \E i \in 1..2 : blame_master[i]["content"] # blame_branch[i]["content"]
    /\ Len(opcodes) = 1
    /\ opcodes[1].tag = "equal"
    /\ Blocks = <<>>

-----------------------------------------------------------------------------
(* The backend handle *)

\* C19: every backend call of a walk was made on the handle the GitTracker was
\* constructed with, and no walk ends for want of another handle.
C19_CallsOnConstructorHandle ==
    /\ \A k \in DOMAIN calls : calls[k].on = cfg.wrapper
    /\ err # "NameError"


-----------------------------------------------------------------------------
(* The owner filter of display *)

\* an e-mail as --owners gives it: the author-mail without its angle brackets
Bare(mail) == SelectSeq(mail, LAMBDA c : c \notin {"<", ">"})

BareMails(records) == {Bare(records[i]["author-mail"]) : i \in DOMAIN records}

\* an owner wrote some mainline line of the block, and some author of the
\* branch slice wrote no mainline line of it
PassesOwners(item) ==
    /\ \E o \in owners.set : o \in BareMails(item.master)
    /\ \E m \in BareMails(item.brn) : m \notin BareMails(item.master)

ShownBlocks == SelectSeq(shown, IsBlock)

=============================================================================
